---- MODULE Spec2Model ----
(***************************************************************************)
(* Indexing pipeline of MindNexus: DocumentUseCase.index_document and      *)
(* DocumentUseCase.delete_document running as request handlers over the    *)
(* chunk repository (SQL rows written through a request-scoped session,    *)
(* committed when the handler returns and rolled back when it raises) and  *)
(* the Chroma vector store (written immediately, outside any transaction). *)
(***************************************************************************)
EXTENDS Integers, FiniteSets, Sequences, TLC

\* ------------------------------------------------------------------ bounds
MaxChunks == 2          \* largest number of chunks one chunking pass returns
MaxCalls == 3           \* number of index / delete calls in one behaviour

\* ------------------------------------------------------- program constants
min_chunk_size == 100

Docs == {"dA", "dB"}                \* document ids
Procs == {"p1", "p2"}               \* request handlers that can be in flight
Main == "p1"                        \* the handler of the one-call-at-a-time runs
OneDoc == {"dA"}                    \* the document of the one-document runs
DocumentStatus == {"pending", "processing", "indexed", "failed"}
Exceptions == {"ErrA", "ErrB"}      \* classes of exception a collaborator raises
Lens == {0, 1, min_chunk_size}      \* len(document.content) of the stored text

VARIABLES
    docs,         \* committed documents table: doc id -> [exists, status]
    chunkStore,   \* committed document_chunks rows: set of [id, doc]
    vectorStore,  \* Chroma collection: set of [id, doc]
    nextId,       \* number of uuid4 values drawn so far
    calls,        \* number of index / delete calls begun so far
    pc,           \* per handler: the statement it executes next
    req,          \* per handler: [kind, doc] of the call in flight
    document,     \* per handler: status field of its local Document entity
    newChunks,    \* per handler: ids of the DocumentChunk entities it built
    tx,           \* per handler: uncommitted writes of its session
    exc,          \* per handler: exception caught by the except clause
    failedAt,     \* per handler: statement whose awaited call raised
    hist,         \* per handler: collaborator calls that returned, in order
    pre,          \* per handler: the two stores as they were when its call began,
                  \* kept while that call is the only one in flight
    waiting,      \* per handler: the caller still waits for the result
    last,         \* the call that the latest step finished, if any, and how
    idx,          \* per document: outcome and chunk ids of its latest index call
    cleanSeen,    \* outcomes a caller has filed as chunking / embedding failures
    searchObs,    \* the result of the search the latest step performed, if any
    call,         \* the arguments of a function called on its own, if any
    ret           \* what the functions called on `call` returned

\* the state of the indexing pipeline
pipeline == <<docs, chunkStore, vectorStore, nextId, calls, pc, req, document,
              newChunks, tx, exc, failedAt, hist, pre, waiting, last, idx,
              cleanSeen, searchObs>>

vars == <<pipeline, call, ret>>

Absent == [exists |-> FALSE, status |-> "pending"]
EmptyTx == [del |-> {}, ins |-> {}, status |-> "none", docDel |-> FALSE]
NoReq == [kind |-> "none", doc |-> "none"]
NoPre == [known |-> FALSE, chunks |-> {}, vectors |-> {}]
NoCall == [fn |-> "none"]
NoRet == [fn |-> "none"]
NoObs == [doc |-> "none", ids |-> {}]
NoIdx == [last |-> "none", ids |-> {}]
NoLast == [kind |-> "none", doc |-> "none", result |-> "none", exc |-> "none",
           status |-> "none", failedAt |-> "none", hist |-> <<>>, ids |-> {},
           pre |-> NoPre, prev |-> NoIdx]

\* ------------------------------------------------------------ pure helpers

\* ids of the entries of a store that belong to document d
IdsOf(store, d) == {c.id : c \in {x \in store : x.doc = d}}

\* the rows / vectors built from a set of ids for document d
Entries(ids, d) == {[id |-> i, doc |-> d] : i \in ids}

\* how many chunks chunk_text can return for a text of the given length
ChunkCounts(len) ==
    IF len = 0 THEN {0}
    ELSE IF len < min_chunk_size THEN {1}
    ELSE 0..MaxChunks

\* a delete_by_document that empties the collection
VectorDeleteEverything(store, d) == {}

\* a delete_by_document whose filter matches nothing
VectorDeleteNothing(store, d) == store

\* ChromaVectorStore.delete_by_document
VectorDeleteByDocument(store, d) == {v \in store : v.doc # d}

\* ChromaVectorStore.add_documents
VectorAddDocuments(store, ids, d) ==
    IF ids = {} THEN store ELSE store \cup Entries(ids, d)

\* SQLAlchemyChunkRepository.delete_by_document, inside session transaction t
ChunkDeleteByDocument(t, d) ==
    [t EXCEPT !.del = @ \cup {c \in chunkStore : c.doc = d},
              !.ins = {c \in @ : c.doc # d}]

\* SQLAlchemyChunkRepository.create_many, inside session transaction t
ChunkCreateMany(t, ids, d) == [t EXCEPT !.ins = @ \cup Entries(ids, d)]

\* SQLAlchemyDocumentRepository.get_by_id / update see the row through session t
DocVisible(t, d) == docs[d].exists /\ ~t.docDel

\* an index_document that clears both stores before it chunks and embeds
NextStageDeleteFirst(stage, n) ==
    CASE stage = "processing" -> "cdel"
      [] stage = "cdel"       -> "vdel"
      [] stage = "vdel"       -> "chunk"
      [] stage = "chunk"      -> IF n = 0 THEN "mark" ELSE "embed"
      [] stage = "embed"      -> "cins"
      [] stage = "cins"       -> "vins"
      [] stage = "vins"       -> "mark"
      [] stage = "mark"       -> "return"

\* an index_document whose zero-chunk branch returns without clearing the stores
NextStageKeepOnEmpty(stage, n) ==
    CASE stage = "processing" -> "chunk"
      [] stage = "chunk"      -> IF n = 0 THEN "mark" ELSE "embed"
      [] stage = "embed"      -> "cdel"
      [] stage = "cdel"       -> "vdel"
      [] stage = "vdel"       -> IF n = 0 THEN "mark" ELSE "cins"
      [] stage = "cins"       -> "vins"
      [] stage = "vins"       -> "mark"
      [] stage = "mark"       -> "return"

\* an index_document that never adds the new vectors
NextStageNoVectorInsert(stage, n) ==
    CASE stage = "processing" -> "chunk"
      [] stage = "chunk"      -> IF n = 0 THEN "cdel" ELSE "embed"
      [] stage = "embed"      -> "cdel"
      [] stage = "cdel"       -> "vdel"
      [] stage = "vdel"       -> IF n = 0 THEN "mark" ELSE "cins"
      [] stage = "cins"       -> "mark"
      [] stage = "vins"       -> "mark"
      [] stage = "mark"       -> "return"

\* program order of index_document: the statement that follows `stage`, where
\* n is the number of chunks the chunking step returned
NextStage(stage, n) ==
    CASE stage = "processing" -> "chunk"
      [] stage = "chunk"      -> IF n = 0 THEN "cdel" ELSE "embed"
      [] stage = "embed"      -> "cdel"
      [] stage = "cdel"       -> "vdel"
      [] stage = "vdel"       -> IF n = 0 THEN "mark" ELSE "cins"
      [] stage = "cins"       -> "vins"
      [] stage = "vins"       -> "mark"
      [] stage = "mark"       -> "return"

\* statements of index_document inside the try block that await a collaborator
IndexStages == {"processing", "chunk", "embed", "cdel", "vdel", "cins", "vins", "mark"}
\* statements of delete_document that await a store
DeleteStages == {"d_vdel", "d_cdel", "d_ddel"}

\* ------------------------------------------------------------------- Init
\* no document, no call in flight, empty stores
InitPipeline ==
    /\ docs = [d \in Docs |-> Absent]
    /\ chunkStore = {}
    /\ vectorStore = {}
    /\ nextId = 0
    /\ calls = 0
    /\ pc = [p \in Procs |-> "idle"]
    /\ req = [p \in Procs |-> NoReq]
    /\ document = [p \in Procs |-> "none"]
    /\ newChunks = [p \in Procs |-> {}]
    /\ tx = [p \in Procs |-> EmptyTx]
    /\ exc = [p \in Procs |-> "none"]
    /\ failedAt = [p \in Procs |-> "none"]
    /\ hist = [p \in Procs |-> <<>>]
    /\ pre = [p \in Procs |-> NoPre]
    /\ waiting = [p \in Procs |-> FALSE]
    /\ last = NoLast
    /\ idx = [d \in Docs |-> NoIdx]
    /\ cleanSeen = {}
    /\ searchObs = NoObs

Init ==
    /\ InitPipeline
    /\ call = NoCall
    /\ ret = NoRet

\* --------------------------------------------------- session commit / rollback

\* DatabaseManager.session: commit after the handler returned
Commit(p) ==
    LET t == tx[p]
        d == req[p].doc
    IN /\ chunkStore' = (chunkStore \ t.del) \cup t.ins
       /\ docs' = [docs EXCEPT ![d] =
                      IF t.docDel THEN Absent
                      ELSE IF t.status # "none" /\ @.exists
                           THEN [@ EXCEPT !.status = t.status]
                           ELSE @]

\* DatabaseManager.session: rollback after the handler raised
Rollback(p) == UNCHANGED <<docs, chunkStore>>

OthersIdle(p) == \A q \in Procs \ {p} : pc[q] = "idle"

\* snapshot of the two stores
StoresNow == [known |-> TRUE, chunks |-> chunkStore, vectors |-> vectorStore]

\* a call of handler p begins
Begin(p, kind, d) ==
    /\ pc[p] = "idle"
    /\ calls < MaxCalls
    /\ calls' = calls + 1
    /\ req' = [req EXCEPT ![p] = [kind |-> kind, doc |-> d]]
    /\ document' = [document EXCEPT ![p] = docs[d].status]
    /\ pre' = [q \in Procs |-> IF q = p /\ OthersIdle(p) THEN StoresNow ELSE NoPre]
    /\ waiting' = [waiting EXCEPT ![p] = TRUE]
    /\ last' = NoLast

\* what the caller of an index_document call gets to see
Outcome(res, e, status) == [result |-> res, exc |-> e, status |-> status]

\* the call of handler p ends with result res (and exception e, entity status st,
\* failing statement at); its session is gone and its locals are dropped
Finish(p, res, e, st, at) ==
    /\ last' = [kind |-> req[p].kind, doc |-> req[p].doc, result |-> res,
                exc |-> e, status |-> st, failedAt |-> at, hist |-> hist[p],
                ids |-> newChunks[p], pre |-> pre[p],
                prev |-> idx[req[p].doc]]
    /\ idx' = IF req[p].kind = "index"
              THEN [idx EXCEPT ![req[p].doc] =
                       IF res = "true" THEN [last |-> "ok", ids |-> newChunks[p]]
                       ELSE [last |-> "fail", ids |-> {}]]
              ELSE idx
    /\ pc' = [pc EXCEPT ![p] = "idle"]
    /\ req' = [req EXCEPT ![p] = NoReq]
    /\ document' = [document EXCEPT ![p] = "none"]
    /\ newChunks' = [newChunks EXCEPT ![p] = {}]
    /\ tx' = [tx EXCEPT ![p] = EmptyTx]
    /\ exc' = [exc EXCEPT ![p] = "none"]
    /\ failedAt' = [failedAt EXCEPT ![p] = "none"]
    /\ hist' = [hist EXCEPT ![p] = <<>>]
    /\ pre' = [pre EXCEPT ![p] = NoPre]
    /\ waiting' = [waiting EXCEPT ![p] = FALSE]

\* a call that returns False at once: no such document
NotFound(p, kind, d) ==
    /\ pc[p] = "idle"
    /\ calls < MaxCalls
    /\ calls' = calls + 1
    /\ ~docs[d].exists
    /\ last' = [NoLast EXCEPT !.kind = kind, !.doc = d, !.result = "false",
                              !.pre = IF OthersIdle(p) THEN StoresNow ELSE NoPre,
                              !.prev = idx[d]]
    /\ idx' = IF kind = "index"
              THEN [idx EXCEPT ![d] = [last |-> "fail", ids |-> {}]]
              ELSE idx

\* ------------------------------------------------------------ create_document

\* DocumentUseCase.create_document with auto_index = False
CreateDocument(d) ==
    /\ ~docs[d].exists
    /\ docs' = [docs EXCEPT ![d] = [exists |-> TRUE, status |-> "pending"]]
    /\ last' = NoLast
    /\ searchObs' = NoObs
    /\ UNCHANGED <<chunkStore, vectorStore, nextId, calls, pc, req, document,
                   newChunks, tx, exc, failedAt, hist, pre, waiting, idx,
                   cleanSeen, call, ret>>

\* ------------------------------------------------------------- index_document

\* document_repo.get_by_id found the document: enter the try block
IndexStart(p, d) ==
    /\ docs[d].exists
    /\ Begin(p, "index", d)
    /\ pc' = [pc EXCEPT ![p] = "processing"]
    /\ searchObs' = NoObs
    /\ UNCHANGED <<docs, chunkStore, vectorStore, nextId, newChunks, tx, exc,
                   failedAt, hist, idx, cleanSeen, call, ret>>

\* document_repo.get_by_id found nothing: return False
IndexNotFound(p, d) ==
    /\ NotFound(p, "index", d)
    /\ searchObs' = NoObs
    /\ UNCHANGED <<docs, chunkStore, vectorStore, nextId, pc, req, document,
                   newChunks, tx, exc, failedAt, hist, pre, waiting, cleanSeen,
                   call, ret>>

\* document.status = PROCESSING; await document_repo.update(document)
IndexMarkProcessing(p) ==
    /\ pc[p] = "processing"
    /\ DocVisible(tx[p], req[p].doc)
    /\ document' = [document EXCEPT ![p] = "processing"]
    /\ tx' = [tx EXCEPT ![p].status = "processing"]
    /\ pc' = [pc EXCEPT ![p] = NextStage("processing", 0)]
    /\ last' = NoLast
    /\ searchObs' = NoObs
    /\ UNCHANGED <<docs, chunkStore, vectorStore, nextId, calls, req,
                   newChunks, exc, failedAt, hist, pre, waiting, idx,
                   cleanSeen, call, ret>>

\* chunk_text / chunk_text_async returned n chunks for a text of length len;
\* one DocumentChunk with a fresh uuid4 is built per chunk
IndexChunk(p) ==
    /\ pc[p] = "chunk"
    /\ \E len \in Lens : \E n \in ChunkCounts(len) :
          /\ newChunks' = [newChunks EXCEPT ![p] = (nextId + 1)..(nextId + n)]
          /\ nextId' = nextId + n
          /\ pc' = [pc EXCEPT ![p] = NextStage("chunk", n)]
    /\ hist' = [hist EXCEPT ![p] = Append(@, "chunk_ok")]
    /\ last' = NoLast
    /\ searchObs' = NoObs
    /\ UNCHANGED <<docs, chunkStore, vectorStore, calls, req, document, tx,
                   exc, failedAt, pre, waiting, idx, cleanSeen, call, ret>>

\* embedding_service.embed_texts returned
IndexEmbed(p) ==
    /\ pc[p] = "embed"
    /\ hist' = [hist EXCEPT ![p] = Append(@, "embed_ok")]
    /\ pc' = [pc EXCEPT ![p] = NextStage("embed", Cardinality(newChunks[p]))]
    /\ last' = NoLast
    /\ searchObs' = NoObs
    /\ UNCHANGED <<docs, chunkStore, vectorStore, nextId, calls, req, document,
                   newChunks, tx, exc, failedAt, pre, waiting, idx, cleanSeen,
                   call, ret>>

\* await chunk_repo.delete_by_document(doc_id)
IndexChunkDelete(p) ==
    /\ pc[p] = "cdel"
    /\ tx' = [tx EXCEPT ![p] = ChunkDeleteByDocument(@, req[p].doc)]
    /\ hist' = [hist EXCEPT ![p] = Append(@, "cdel")]
    /\ pc' = [pc EXCEPT ![p] = NextStage("cdel", Cardinality(newChunks[p]))]
    /\ last' = NoLast
    /\ searchObs' = NoObs
    /\ UNCHANGED <<docs, chunkStore, vectorStore, nextId, calls, req, document,
                   newChunks, exc, failedAt, pre, waiting, idx, cleanSeen,
                   call, ret>>

\* await vector_store.delete_by_document(doc_id)
IndexVectorDelete(p) ==
    /\ pc[p] = "vdel"
    /\ vectorStore' = VectorDeleteByDocument(vectorStore, req[p].doc)
    /\ hist' = [hist EXCEPT ![p] = Append(@, "vdel")]
    /\ pc' = [pc EXCEPT ![p] = NextStage("vdel", Cardinality(newChunks[p]))]
    /\ last' = NoLast
    /\ searchObs' = NoObs
    /\ UNCHANGED <<docs, chunkStore, nextId, calls, req, document, newChunks,
                   tx, exc, failedAt, pre, waiting, idx, cleanSeen, call, ret>>

\* await chunk_repo.create_many(new_chunks)
IndexChunkInsert(p) ==
    /\ pc[p] = "cins"
    /\ tx' = [tx EXCEPT ![p] = ChunkCreateMany(@, newChunks[p], req[p].doc)]
    /\ hist' = [hist EXCEPT ![p] = Append(@, "cins")]
    /\ pc' = [pc EXCEPT ![p] = NextStage("cins", Cardinality(newChunks[p]))]
    /\ last' = NoLast
    /\ searchObs' = NoObs
    /\ UNCHANGED <<docs, chunkStore, vectorStore, nextId, calls, req, document,
                   newChunks, exc, failedAt, pre, waiting, idx, cleanSeen,
                   call, ret>>

\* await vector_store.add_documents(ids, embeddings, documents, metadatas)
IndexVectorInsert(p) ==
    /\ pc[p] = "vins"
    /\ vectorStore' = VectorAddDocuments(vectorStore, newChunks[p], req[p].doc)
    /\ hist' = [hist EXCEPT ![p] = Append(@, "vins")]
    /\ pc' = [pc EXCEPT ![p] = NextStage("vins", Cardinality(newChunks[p]))]
    /\ last' = NoLast
    /\ searchObs' = NoObs
    /\ UNCHANGED <<docs, chunkStore, nextId, calls, req, document, newChunks,
                   tx, exc, failedAt, pre, waiting, idx, cleanSeen, call, ret>>

\* document.mark_indexed(); await document_repo.update(document)
IndexMarkIndexed(p) ==
    /\ pc[p] = "mark"
    /\ DocVisible(tx[p], req[p].doc)
    /\ document' = [document EXCEPT ![p] = "indexed"]
    /\ tx' = [tx EXCEPT ![p].status = "indexed"]
    /\ pc' = [pc EXCEPT ![p] = NextStage("mark", Cardinality(newChunks[p]))]
    /\ last' = NoLast
    /\ searchObs' = NoObs
    /\ UNCHANGED <<docs, chunkStore, vectorStore, nextId, calls, req,
                   newChunks, exc, failedAt, hist, pre, waiting, idx,
                   cleanSeen, call, ret>>

\* return True; the request's session commits
IndexReturn(p) ==
    /\ pc[p] = "return"
    /\ Commit(p)
    /\ Finish(p, "true", "none", document[p], "none")
    /\ searchObs' = NoObs
    /\ UNCHANGED <<vectorStore, nextId, calls, cleanSeen, call, ret>>

\* the collaborator awaited at the current statement raises e
\* (document_repo.update raises ValueError when the row is gone)
IndexFail(p, e) ==
    /\ pc[p] \in IndexStages
    /\ failedAt' = [failedAt EXCEPT ![p] = pc[p]]
    /\ exc' = [exc EXCEPT ![p] = e]
    /\ pc' = [pc EXCEPT ![p] = "except"]
    /\ last' = NoLast
    /\ searchObs' = NoObs
    /\ UNCHANGED <<docs, chunkStore, vectorStore, nextId, calls, req, document,
                   newChunks, tx, hist, pre, waiting, idx, cleanSeen, call,
                   ret>>

\* except Exception: document.mark_failed(); await document_repo.update(document);
\* raise.  When the update itself raises (e2), that exception leaves the call
\* instead.  Either way the request's session rolls back.
IndexExcept(p, e2) ==
    /\ pc[p] = "except"
    /\ Rollback(p)
    /\ Finish(p, "raised",
              IF DocVisible(tx[p], req[p].doc) THEN exc[p] ELSE e2,
              "failed", failedAt[p])
    /\ searchObs' = NoObs
    /\ UNCHANGED <<vectorStore, nextId, calls, cleanSeen, call, ret>>

\* ------------------------------------------------------------ delete_document

\* document_repo.get_by_id found the document
DeleteStart(p, d) ==
    /\ docs[d].exists
    /\ Begin(p, "delete", d)
    /\ pc' = [pc EXCEPT ![p] = "d_vdel"]
    /\ searchObs' = NoObs
    /\ UNCHANGED <<docs, chunkStore, vectorStore, nextId, newChunks, tx, exc,
                   failedAt, hist, idx, cleanSeen, call, ret>>

\* document_repo.get_by_id found nothing: return False
DeleteNotFound(p, d) ==
    /\ NotFound(p, "delete", d)
    /\ searchObs' = NoObs
    /\ UNCHANGED <<docs, chunkStore, vectorStore, nextId, pc, req, document,
                   newChunks, tx, exc, failedAt, hist, pre, waiting, cleanSeen,
                   call, ret>>

\* await vector_store.delete_by_document(doc_id)
DeleteVector(p) ==
    /\ pc[p] = "d_vdel"
    /\ vectorStore' = VectorDeleteByDocument(vectorStore, req[p].doc)
    /\ hist' = [hist EXCEPT ![p] = Append(@, "vdel")]
    /\ pc' = [pc EXCEPT ![p] = "d_cdel"]
    /\ last' = NoLast
    /\ searchObs' = NoObs
    /\ UNCHANGED <<docs, chunkStore, nextId, calls, req, document, newChunks,
                   tx, exc, failedAt, pre, waiting, idx, cleanSeen, call, ret>>

\* await chunk_repo.delete_by_document(doc_id)
DeleteChunks(p) ==
    /\ pc[p] = "d_cdel"
    /\ tx' = [tx EXCEPT ![p] = ChunkDeleteByDocument(@, req[p].doc)]
    /\ hist' = [hist EXCEPT ![p] = Append(@, "cdel")]
    /\ pc' = [pc EXCEPT ![p] = "d_ddel"]
    /\ last' = NoLast
    /\ searchObs' = NoObs
    /\ UNCHANGED <<docs, chunkStore, vectorStore, nextId, calls, req, document,
                   newChunks, exc, failedAt, pre, waiting, idx, cleanSeen,
                   call, ret>>

\* await document_repo.delete(doc_id)
DeleteDoc(p) ==
    /\ pc[p] = "d_ddel"
    /\ tx' = [tx EXCEPT ![p].docDel = TRUE]
    /\ hist' = [hist EXCEPT ![p] = Append(@, "ddel")]
    /\ pc' = [pc EXCEPT ![p] = "d_return"]
    /\ last' = NoLast
    /\ searchObs' = NoObs
    /\ UNCHANGED <<docs, chunkStore, vectorStore, nextId, calls, req, document,
                   newChunks, exc, failedAt, pre, waiting, idx, cleanSeen,
                   call, ret>>

\* return True; the request's session commits
DeleteReturn(p) ==
    /\ pc[p] = "d_return"
    /\ Commit(p)
    /\ Finish(p, "true", "none", document[p], "none")
    /\ searchObs' = NoObs
    /\ UNCHANGED <<vectorStore, nextId, calls, cleanSeen, call, ret>>

\* the store awaited at the current statement raises e; delete_document has no
\* handler, so the exception leaves the call and the session rolls back
DeleteFail(p, e) ==
    /\ pc[p] \in DeleteStages
    /\ Rollback(p)
    /\ Finish(p, "raised", e, document[p], pc[p])
    /\ searchObs' = NoObs
    /\ UNCHANGED <<vectorStore, nextId, calls, cleanSeen, call, ret>>

\* ------------------------------------------------------------ other requests

\* the caller of the call in flight gives up waiting for the result; nothing
\* in the handler observes it
AbandonWait(p) ==
    /\ pc[p] # "idle"
    /\ waiting[p]
    /\ waiting' = [waiting EXCEPT ![p] = FALSE]
    /\ hist' = [hist EXCEPT ![p] = Append(@, "abandoned")]
    /\ last' = NoLast
    /\ searchObs' = NoObs
    /\ UNCHANGED <<docs, chunkStore, vectorStore, nextId, calls, pc, req,
                   document, newChunks, tx, exc, failedAt, pre, idx, cleanSeen,
                   call, ret>>

\* a caller that was handed the outcome of an index call whose chunking or
\* embedding raised files that outcome
FileCleanFailure ==
    /\ last.kind = "index"
    /\ last.failedAt \in {"chunk", "embed"}
    /\ Outcome(last.result, last.exc, last.status) \notin cleanSeen
    /\ cleanSeen' = cleanSeen \cup {Outcome(last.result, last.exc, last.status)}
    /\ last' = NoLast
    /\ searchObs' = NoObs
    /\ UNCHANGED <<docs, chunkStore, vectorStore, nextId, calls, pc, req,
                   document, newChunks, tx, exc, failedAt, hist, pre, waiting,
                   idx, call, ret>>

\* ChromaVectorStore.search with filters = {"document_id": d} and top_k at
\* least the size of the collection: the ids it returns
Search(d) ==
    /\ searchObs' = [doc |-> d, ids |-> IdsOf(vectorStore, d)]
    /\ last' = NoLast
    /\ UNCHANGED <<docs, chunkStore, vectorStore, nextId, calls, pc, req,
                   document, newChunks, tx, exc, failedAt, hist, pre, waiting,
                   idx, cleanSeen, call, ret>>

\* -------------------------------------------------------------- specification

\* one step of the call that handler p has in flight, or the start of a call
\* on one of the documents ds
StepOn(p, ds) ==
    \/ \E d \in ds : IndexStart(p, d)
    \/ \E d \in ds : IndexNotFound(p, d)
    \/ IndexMarkProcessing(p)
    \/ IndexChunk(p)
    \/ IndexEmbed(p)
    \/ IndexChunkDelete(p)
    \/ IndexVectorDelete(p)
    \/ IndexChunkInsert(p)
    \/ IndexVectorInsert(p)
    \/ IndexMarkIndexed(p)
    \/ IndexReturn(p)
    \/ \E e \in Exceptions : IndexFail(p, e)
    \/ \E e \in Exceptions : IndexExcept(p, e)
    \/ \E d \in ds : DeleteStart(p, d)
    \/ \E d \in ds : DeleteNotFound(p, d)
    \/ DeleteVector(p)
    \/ DeleteChunks(p)
    \/ DeleteDoc(p)
    \/ DeleteReturn(p)
    \/ \E e \in Exceptions : DeleteFail(p, e)

\* one step of handler p, on any document
Step(p) == StepOn(p, Docs)

\* index / delete requests handled concurrently by all handlers
Next ==
    \/ \E d \in Docs : CreateDocument(d)
    \/ \E p \in Procs : Step(p)

Spec == Init /\ [][Next]_vars

\* index / delete requests handled one at a time
NextSingle ==
    \/ \E d \in Docs : CreateDocument(d)
    \/ Step(Main)

SpecSingle == Init /\ [][NextSingle]_vars

\* one call at a time, with searches arriving at any await point
NextSearch ==
    \/ \E d \in Docs : CreateDocument(d)
    \/ Step(Main)
    \/ \E d \in Docs : Search(d)

SpecSearch == Init /\ [][NextSearch]_vars

\* one call at a time, with callers that file the failures reported to them
NextReport ==
    \/ \E d \in Docs : CreateDocument(d)
    \/ Step(Main)
    \/ FileCleanFailure

SpecReport == Init /\ [][NextReport]_vars

\* calls on one document, one at a time, with callers that give up waiting at
\* any await point
NextAbandon ==
    \/ \E d \in OneDoc : CreateDocument(d)
    \/ StepOn(Main, OneDoc)
    \/ AbandonWait(Main)

SpecAbandon == Init /\ [][NextAbandon]_vars

TypeOK ==
    /\ nextId \in 0..(MaxCalls * MaxChunks)
    /\ \A p \in Procs : pc[p] \in IndexStages \cup DeleteStages
                                 \cup {"idle", "except", "return", "d_return"}
    /\ \A v \in vectorStore : v.id \in 1..nextId /\ v.doc \in Docs
    /\ \A c \in chunkStore : c.id \in 1..nextId /\ c.doc \in Docs

\* ------------------------------------------------------------------ strings
\* A str is modelled as the sequence of its characters.

\* str.isspace for one character
IsSpace(c) == c \in {" ", "\n", "\t"}

\* `not s.strip()`
Blank(s) == \A i \in 1..Len(s) : IsSpace(s[i])

\* s[a:b] for 0 <= a, 0 <= b
Slice(s, a, b) ==
    LET hi == IF b < Len(s) THEN b ELSE Len(s)
    IN  IF a >= hi THEN <<>> ELSE [i \in 1..(hi - a) |-> s[a + i]]

\* s[-n:] for n > 0
Suffix(s, n) == IF n >= Len(s) THEN s ELSE Slice(s, Len(s) - n, Len(s))

\* pat occurs in s at the 0-based offset i
OccursAt(s, pat, i) ==
    /\ i + Len(pat) <= Len(s)
    /\ \A k \in 1..Len(pat) : s[i + k] = pat[k]

\* `pat in s`
Contains(s, pat) == \E i \in 0..Len(s) : OccursAt(s, pat, i)

\* s.find(pat)
Find(s, pat) ==
    IF Contains(s, pat)
    THEN CHOOSE i \in 0..Len(s) :
             /\ OccursAt(s, pat, i)
             /\ \A j \in 0..(i - 1) : ~OccursAt(s, pat, j)
    ELSE -1

\* s.split(sep) for a non-empty sep
RECURSIVE Split(_, _)
Split(s, sep) ==
    LET i == Find(s, sep)
    IN  IF i = -1 THEN <<s>>
        ELSE <<Slice(s, 0, i)>> \o Split(Slice(s, i + Len(sep), Len(s)), sep)

\* [s[i:i+n] for i in range(0, len(s), n)]
RECURSIVE FixedWidth(_, _)
FixedWidth(s, n) ==
    IF s = <<>> THEN <<>>
    ELSE <<Slice(s, 0, n)>> \o FixedWidth(Slice(s, n, Len(s)), n)

\* s.strip()
RECURSIVE Strip(_)
Strip(s) ==
    IF s = <<>> THEN s
    ELSE IF IsSpace(s[1]) THEN Strip(Tail(s))
    ELSE IF IsSpace(s[Len(s)]) THEN Strip(Slice(s, 0, Len(s) - 1))
    ELSE s

\* str.lower for one character
LowerChar(c) ==
    CASE c = "A" -> "a"
      [] c = "B" -> "b"
      [] OTHER -> c

\* s.lower()
Lower(s) == [i \in 1..Len(s) |-> LowerChar(s[i])]

\* s.split(): the maximal runs of non-space characters, in order
RECURSIVE Words(_)
Words(s) ==
    IF s = <<>> THEN <<>>
    ELSE IF IsSpace(s[1]) THEN Words(Tail(s))
    ELSE LET stops == {i \in 1..Len(s) : IsSpace(s[i])}
             n == IF stops = {} THEN Len(s)
                  ELSE (CHOOSE i \in stops : \A j \in stops : i <= j) - 1
         IN  <<Slice(s, 0, n)>> \o Words(Slice(s, n, Len(s)))

\* the elements of a sequence
Range(h) == {h[i] : i \in 1..Len(h)}

\* ------------------------------------------------------- DocumentProcessor
\* separators of chunk_text, in order of preference ("u3002" stands for the
\* one character U+3002, the ideographic full stop)
Separators ==
    << <<"\n", "\n">>, <<"\n">>, <<".", " ">>, <<"u3002">>, <<"!", " ">>,
       <<"?", " ">>, <<";", " ">>, <<",", " ">>, <<" ">>, <<>> >>

\* number of leading characters of a chunk that chunk_text looks up in the text
FindPrefix == 50

\* the first separator of the list that occurs in the text; the list ends with
\* the empty separator, which occurs in every text
RECURSIVE PickSeparator(_, _)
PickSeparator(text, separators) ==
    IF Len(separators) = 1 THEN separators[1]
    ELSE IF Contains(text, separators[1]) THEN separators[1]
    ELSE PickSeparator(text, Tail(separators))

\* a recursive call that is given the separators of its caller
SameSeparators(separators) == separators

\* the separators a recursive call of _recursive_split is given
NextSeparators(separators) == Tail(separators)

RECURSIVE RecursiveSplit(_, _, _)
RECURSIVE MergeSplits(_, _, _, _, _, _)

\* the loop of _recursive_split over splits[i..]: chunks collected so far and
\* the chunk being filled
MergeSplits(splits, i, acc, separator, separators, chunk_size) ==
    IF i > Len(splits) THEN acc
    ELSE LET split == splits[i]
             test_chunk == IF acc.current # <<>>
                           THEN acc.current \o separator \o split
                           ELSE split
             flushed == IF acc.current # <<>>
                        THEN Append(acc.chunks, acc.current)
                        ELSE acc.chunks
             sub_chunks == RecursiveSplit(split, NextSeparators(separators), chunk_size)
             next ==
                 IF Blank(split) THEN acc
                 ELSE IF Len(test_chunk) <= chunk_size
                      THEN [chunks |-> acc.chunks, current |-> test_chunk]
                 ELSE IF Len(split) > chunk_size /\ Len(separators) > 1
                      THEN [chunks |-> flushed \o Slice(sub_chunks, 0, Len(sub_chunks) - 1),
                            current |-> IF sub_chunks # <<>>
                                        THEN sub_chunks[Len(sub_chunks)]
                                        ELSE <<>>]
                 ELSE [chunks |-> flushed, current |-> split]
         IN  MergeSplits(splits, i + 1, next, separator, separators, chunk_size)

\* DocumentProcessor._recursive_split
RecursiveSplit(text, separators, chunk_size) ==
    IF Len(text) <= chunk_size THEN
        IF Blank(text) THEN <<>> ELSE <<text>>
    ELSE LET separator == PickSeparator(text, separators)
             splits == IF separator # <<>>
                       THEN Split(text, separator)
                       ELSE FixedWidth(text, chunk_size)
             merged == MergeSplits(splits, 1, [chunks |-> <<>>, current |-> <<>>],
                                   separator, separators, chunk_size)
         IN  IF merged.current # <<>>
             THEN Append(merged.chunks, merged.current)
             ELSE merged.chunks

\* ----------------------------------------------------------------- claims
AllIdle == \A p \in Procs : pc[p] = "idle"

\* x occurs in h somewhere before position i
Before(h, x, i) == \E j \in 1..(i - 1) : h[j] = x

SwapOps == {"cdel", "vdel", "cins", "vins"}

\* C1: when the chunking step or the embedding step raises while an indexed
\* document is being reindexed, index_document does not report success and
\* the chunk store and the vector store hold exactly what they held when the
\* call started, for every document.
C1_FailedPreparationLeavesStores ==
    (/\ last.kind = "index"
     /\ last.failedAt \in {"chunk", "embed"}
     /\ last.pre.known)
    => /\ last.result # "true"
       /\ chunkStore = last.pre.chunks
       /\ vectorStore = last.pre.vectors

C1_Witness ==
    /\ last.kind = "index"
    /\ last.failedAt = "embed"
    /\ last.result = "raised"
    /\ last.prev.last = "ok"
    /\ last.pre.known
    /\ IdsOf(last.pre.chunks, last.doc) # {}
    /\ IdsOf(last.pre.vectors, last.doc) # {}
    /\ \E d \in Docs \ {last.doc} : IdsOf(vectorStore, d) # {}

\* C2: when index_document succeeds twice in sequence on one document, the
\* chunk ids in the chunk store and the vector ids in the vector store of
\* that document are both exactly the ids the second call produced, and
\* nothing the first call produced is left in either store.
C2_SecondPassReplacesFirst ==
    (/\ last.kind = "index"
     /\ last.result = "true"
     /\ last.prev.last = "ok")
    => /\ IdsOf(chunkStore, last.doc) = last.ids
       /\ IdsOf(vectorStore, last.doc) = last.ids
       /\ \A i \in last.prev.ids :
              /\ i \notin IdsOf(chunkStore, last.doc)
              /\ i \notin IdsOf(vectorStore, last.doc)

C2_Witness ==
    /\ last.kind = "index"
    /\ last.result = "true"
    /\ last.prev.last = "ok"
    /\ last.prev.ids # {}
    /\ last.ids # {}
    /\ IdsOf(vectorStore, last.doc) = last.ids

\* C3: after any sequence of index_document and delete_document calls, some
\* of which fail, a document whose most recent index_document call returned
\* success has the same ids in the chunk store as in the vector store.
C3_NoOrphansAfterSuccess ==
    \A d \in Docs :
        (AllIdle /\ idx[d].last = "ok")
        => IdsOf(chunkStore, d) = IdsOf(vectorStore, d)

\* the handler p is between its first delete and its last insert
InSwap(p) ==
    /\ req[p].kind = "index"
    /\ newChunks[p] # {}
    /\ pc[p] \in {"vdel", "cins", "vins"}

\* C4: two index_document calls in flight for one document never interleave
\* their deletes and inserts, and when a call has returned success the
\* stores hold the chunks and vectors of that pass only.
C4_SwapsDoNotInterleave ==
    /\ \A p, q \in Procs :
           (p # q /\ req[p].doc = req[q].doc) => ~(InSwap(p) /\ InSwap(q))
    /\ (last.kind = "index" /\ last.result = "true" /\ AllIdle)
       => /\ IdsOf(vectorStore, last.doc) = last.ids
          /\ IdsOf(chunkStore, last.doc) = last.ids

\* document d, which had vectors when the call started, is being reindexed
\* and the pass is not known to have produced zero chunks
Reindexing(d) ==
    /\ pc[Main] # "idle"
    /\ req[Main].kind = "index"
    /\ req[Main].doc = d
    /\ pre[Main].known
    /\ IdsOf(pre[Main].vectors, d) # {}
    /\ ("chunk_ok" \in Range(hist[Main]) => newChunks[Main] # {})

\* C5: while an indexed document is reindexed with text that yields at least
\* one chunk, a search running at the same time never sees the vector store
\* hold no vectors for the document.
C5_SearchNeverSeesEmpty ==
    \A d \in Docs :
        (searchObs.doc = d /\ Reindexing(d)) => searchObs.ids # {}

\* C6: when inserting the new chunks or vectors fails after the old ones
\* were deleted, index_document does not finish with the old vectors of the
\* document removed and no replacement stored.
C6_NoEmptyAfterInsertFailure ==
    (/\ last.kind = "index"
     /\ last.failedAt \in {"cins", "vins"}
     /\ last.pre.known
     /\ IdsOf(last.pre.vectors, last.doc) # {})
    => IdsOf(vectorStore, last.doc) # {}

\* C7: a failure that leaves a swap partly applied is never reported as
\* success, and what the caller gets differs from what it gets for a failure
\* of chunking or embedding.
C7_PartialSwapDistinguishable ==
    (/\ last.kind = "index"
     /\ last.failedAt \in {"cins", "vins"})
    => /\ last.result # "true"
       /\ Outcome(last.result, last.exc, last.status) \notin cleanSeen

\* in the log h of one index_document execution, every delete and insert
\* comes after chunking and embedding returned, and in each store the insert
\* comes after the delete
Ordered(h) ==
    \A i \in 1..Len(h) :
        /\ h[i] \in SwapOps => Before(h, "chunk_ok", i) /\ Before(h, "embed_ok", i)
        /\ h[i] = "cins" => Before(h, "cdel", i)
        /\ h[i] = "vins" => Before(h, "vdel", i)

\* C8: in every execution of index_document that produces at least one
\* chunk, no delete and no insert is issued to either store before both the
\* chunking step and the embedding step returned, and in each store the
\* delete comes strictly before the insert.
C8_SwapAfterPreparation ==
    /\ \A p \in Procs :
           (req[p].kind = "index" /\ newChunks[p] # {}) => Ordered(hist[p])
    /\ (last.kind = "index" /\ last.ids # {}) => Ordered(last.hist)

C8_Witness ==
    /\ newChunks[Main] # {}
    /\ hist[Main] = <<"chunk_ok", "embed_ok", "cdel", "vdel", "cins", "vins">>
    /\ IdsOf(vectorStore, req[Main].doc) = newChunks[Main]

\* C9: reindexing a document with text for which the chunker returns zero
\* chunks succeeds when no collaborator fails, and leaves the document with
\* no chunks in the chunk store and no vectors in the vector store.
C9_EmptyReindexClears ==
    (/\ last.kind = "index"
     /\ "chunk_ok" \in Range(last.hist)
     /\ last.ids = {}
     /\ last.failedAt = "none")
    => /\ last.result = "true"
       /\ last.status = "indexed"
       /\ IdsOf(chunkStore, last.doc) = {}
       /\ IdsOf(vectorStore, last.doc) = {}

C9_Witness ==
    /\ last.kind = "index"
    /\ last.result = "true"
    /\ last.ids = {}
    /\ last.prev.last = "ok"
    /\ last.pre.known
    /\ IdsOf(last.pre.chunks, last.doc) # {}
    /\ IdsOf(last.pre.vectors, last.doc) # {}
    /\ IdsOf(chunkStore, last.doc) = {}
    /\ IdsOf(vectorStore, last.doc) = {}

\* one call at a time whose handler is always scheduled again by the event
\* loop, whether or not its caller still waits
FairAbandon == SpecAbandon /\ WF_vars(StepOn(Main, OneDoc))

\* the embedding step of the running index_document has returned
Embedded == "embed_ok" \in Range(hist[Main])

\* C10: once the embedding step has returned, the execution goes on to issue
\* both deletes and both inserts unless a store fails, also when the caller
\* has stopped waiting; it does not stop with part of the swap applied.
C10_SwapRunsToCompletion ==
    /\ (Embedded ~> (SwapOps \subseteq Range(hist[Main]) \/ failedAt[Main] # "none"))
    /\ []((last.kind = "index" /\ "embed_ok" \in Range(last.hist)
              /\ last.failedAt = "none")
          => SwapOps \subseteq Range(last.hist))

C10_Witness ==
    /\ ~waiting[Main]
    /\ failedAt[Main] = "none"
    /\ \E i \in 1..Len(hist[Main]) :
           /\ hist[Main][i] = "abandoned"
           /\ Before(hist[Main], "embed_ok", i)
           /\ \A j \in 1..i : hist[Main][j] \notin SwapOps
    /\ SwapOps \subseteq Range(hist[Main])
    /\ IdsOf(vectorStore, req[Main].doc) = newChunks[Main]

\* the value None of an Optional[int] argument; the int arguments are >= 0
None == -1

\* the metadata dict of a TextChunk as the set of its items; None has none
NoMetadata == {}

\* `arg or default` for an Optional[int] argument
OrDefault(arg, default) == IF arg = None \/ arg = 0 THEN default ELSE arg

\* TextChunk(content, start_char, end_char, chunk_index, metadata)
TextChunk(content, start_char, end_char, chunk_index, metadata) ==
    [content |-> content, start_char |-> start_char, end_char |-> end_char,
     chunk_index |-> chunk_index, metadata |-> metadata]

\* a short path that trims the text before it makes the chunk
ShortTextTrimmed(text) ==
    IF ~Blank(text)
    THEN <<TextChunk(Strip(text), 0, Len(Strip(text)), 0, NoMetadata)>>
    ELSE <<>>

\* the chunk that chunk_text returns for a text shorter than min_chunk_size
ShortText(text) ==
    IF text # <<>> THEN <<TextChunk(text, 0, Len(text), 0, NoMetadata)>> ELSE <<>>

\* the i-th chunk of chunk_text with the tail of its predecessor prepended
WithOverlap(chunks, i, chunk_overlap) ==
    IF i > 1 /\ chunk_overlap > 0
    THEN (IF Len(chunks[i - 1]) > chunk_overlap
          THEN Suffix(chunks[i - 1], chunk_overlap)
          ELSE chunks[i - 1]) \o chunks[i]
    ELSE chunks[i]

\* `text.find(chunk[:50])`, or 0 when it is not found
Locate(text, chunk) ==
    LET start_char == Find(text, Slice(chunk, 0, FindPrefix))
    IN  IF start_char = -1 THEN 0 ELSE start_char

\* DocumentProcessor.chunk_text of the processor self = [chunk_size,
\* chunk_overlap, min_chunk_size]
ChunkText(self, text, chunk_size, chunk_overlap) ==
    LET size == OrDefault(chunk_size, self.chunk_size)
        overlap == OrDefault(chunk_overlap, self.chunk_overlap)
    IN  IF text = <<>> \/ Len(text) < self.min_chunk_size THEN ShortText(text)
        ELSE LET chunks == RecursiveSplit(text, Separators, size)
             IN  [i \in 1..Len(chunks) |->
                     LET chunk == WithOverlap(chunks, i, overlap)
                         start_char == Locate(text, chunk)
                     IN  TextChunk(chunk, start_char, start_char + Len(chunk),
                                   i - 1, NoMetadata)]

\* the children of one parent chunk, positioned in the original text
ChildrenOf(self, parent, child_chunk_size, child_overlap) ==
    LET children == ChunkText(self, parent.content, child_chunk_size, child_overlap)
    IN  [i \in 1..Len(children) |->
            LET start_char == children[i].start_char + parent.start_char
            IN  TextChunk(children[i].content, start_char,
                          start_char + Len(children[i].content),
                          children[i].chunk_index,
                          {<<"parent_index", parent.chunk_index>>})]

\* the concatenation of the sequences f[1], ..., f[n]
RECURSIVE Concat(_, _)
Concat(f, n) == IF n = 0 THEN <<>> ELSE Concat(f, n - 1) \o f[n]

\* DocumentProcessor.chunk_with_parents
ChunkWithParents(self, text, parent_chunk_size, child_chunk_size, child_overlap) ==
    LET parent_chunks == ChunkText(self, text, parent_chunk_size, 0)
        child_chunks ==
            Concat([k \in 1..Len(parent_chunks) |->
                       ChildrenOf(self, parent_chunks[k], child_chunk_size,
                                  child_overlap)],
                   Len(parent_chunks))
    IN  [parent_chunks |-> parent_chunks, child_chunks |-> child_chunks]

\* ------------------------------------------------------- ChromaVectorStore
\* Scores are exact fractions [num, den] with den > 0.
Frac(num, den) == [num |-> num, den |-> den]
FracAdd(a, b) == Frac(a.num * b.den + b.num * a.den, a.den * b.den)
FracMul(a, b) == Frac(a.num * b.num, a.den * b.den)
FracEq(a, b) == a.num * b.den = b.num * a.den
FracLess(a, b) == a.num * b.den < b.num * a.den
One == Frac(1, 1)
Zero == Frac(0, 1)

\* ChromaVectorStore.search over a collection given as the sequence in which
\* Chroma ranks its entries for the query embedding (nearest first): the
\* first top_k of them, each with score = 1 - distance
VectorSearch(ranked, top_k) ==
    [i \in 1..(IF top_k < Len(ranked) THEN top_k ELSE Len(ranked)) |->
        [id |-> ranked[i].id, content |-> ranked[i].content,
         score |-> FracAdd(One, Frac(0 - ranked[i].distance.num,
                                     ranked[i].distance.den))]]

\* `sum(1 for term in query_terms if term in content_lower)`
KeywordMatches(query_terms, content_lower) ==
    Cardinality({term \in query_terms : Contains(content_lower, term)})

\* keyword_score of one candidate
KeywordScore(query_terms, content) ==
    IF query_terms # {}
    THEN Frac(KeywordMatches(query_terms, Lower(content)), Cardinality(query_terms))
    ELSE Zero

\* semantic_weight * score + (1 - semantic_weight) * keyword_score
Combine(semantic_weight, score, keyword_score) ==
    FracAdd(FracMul(semantic_weight, score),
            FracMul(FracAdd(One, Frac(0 - semantic_weight.num, semantic_weight.den)),
                    keyword_score))

\* an insertion that puts r in front of the results it ties with
InsertBeforeTies(sorted, r) ==
    LET before == {i \in 1..Len(sorted) : FracLess(r.score, sorted[i].score)}
        n == Cardinality(before)
    IN  Slice(sorted, 0, n) \o <<r>> \o Slice(sorted, n, Len(sorted))

\* list.sort(key=score, reverse=True) is stable: r goes behind every result
\* already placed whose score is not smaller
InsertByScore(sorted, r) ==
    LET before == {i \in 1..Len(sorted) : ~FracLess(sorted[i].score, r.score)}
        n == Cardinality(before)
    IN  Slice(sorted, 0, n) \o <<r>> \o Slice(sorted, n, Len(sorted))

\* results[1..n] sorted by descending score
RECURSIVE SortByScore(_, _)
SortByScore(results, n) ==
    IF n = 0 THEN <<>> ELSE InsertByScore(SortByScore(results, n - 1), results[n])

\* a hybrid_search that asks the vector search for top_k candidates only
CandidatesTopK(top_k) == top_k

\* number of candidates hybrid_search asks the vector search for
Candidates(top_k) == top_k * 2

\* ChromaVectorStore.hybrid_search
HybridSearch(query, ranked, top_k, semantic_weight) ==
    LET semantic_results == VectorSearch(ranked, Candidates(top_k))
        query_terms == Range(Words(Lower(query)))
        rescored == [i \in 1..Len(semantic_results) |->
                        [semantic_results[i] EXCEPT !.score =
                            Combine(semantic_weight, @,
                                    KeywordScore(query_terms,
                                                 semantic_results[i].content))]]
    IN  Slice(SortByScore(rescored, Len(rescored)), 0, top_k)

\* --- searches called on their own
MaxCandidates == 3      \* largest number of entries in the collection
MaxTopK == 2            \* largest top_k

\* collections as Chroma ranks them: ids are distinct, cosine distances (in
\* tenths) do not decrease
Rankings ==
    UNION {{r \in [1..n -> [id : 1..n,
                            content : {<<"a">>, <<"a", "b">>, <<"b", " ", "a">>, <<"B">>},
                            distance : {Frac(d, 10) : d \in {0, 5, 15}}]] :
               /\ \A i \in 1..n : r[i].id = i
               /\ \A i \in 1..(n - 1) : ~FracLess(r[i + 1].distance, r[i].distance)}
           : n \in 0..MaxCandidates}

\* a query text, a collection, top_k and semantic_weight (in tenths)
InitSearch ==
    /\ InitPipeline
    /\ call \in [fn : {"search"},
                 query : {<<>>, <<" ">>, <<"a">>, <<"A", " ", "b">>, <<"b", " ", "b">>},
                 ranked : Rankings, top_k : 1..MaxTopK,
                 semantic_weight : {Frac(w, 10) : w \in {0, 7, 10}}]
    /\ ret = [done |-> {}, hybrid_search |-> <<>>, search |-> <<>>]

\* await vector_store.hybrid_search(query, query_embedding, top_k, ...)
HybridSearchCall ==
    /\ call.fn = "search"
    /\ "hybrid_search" \notin ret.done
    /\ ret' = [ret EXCEPT !.done = @ \cup {"hybrid_search"},
                          !.hybrid_search = HybridSearch(call.query, call.ranked,
                                                         call.top_k,
                                                         call.semantic_weight)]
    /\ UNCHANGED <<pipeline, call>>

\* await vector_store.search(query_embedding, top_k)
VectorSearchCall ==
    /\ call.fn = "search"
    /\ "search" \notin ret.done
    /\ ret' = [ret EXCEPT !.done = @ \cup {"search"},
                          !.search = VectorSearch(call.ranked, call.top_k)]
    /\ UNCHANGED <<pipeline, call>>

NextSearchCalls == HybridSearchCall \/ VectorSearchCall

\* the two searches of the vector store called on one collection
SpecSearchCalls == InitSearch /\ [][NextSearchCalls]_vars

Ids(results) == [i \in 1..Len(results) |-> results[i].id]

\* C11: with semantic_weight = 1.0, hybrid_search returns the same result ids
\* in the same order as search with the same top_k, for every query text,
\* collection and top_k >= 1.
C11_WeightOneIsVectorSearch ==
    (/\ ret.done = {"hybrid_search", "search"}
     /\ FracEq(call.semantic_weight, One))
    => Ids(ret.hybrid_search) = Ids(ret.search)

C11_Witness ==
    /\ ret.done = {"hybrid_search", "search"}
    /\ FracEq(call.semantic_weight, One)
    /\ Len(call.ranked) > call.top_k
    /\ Len(ret.hybrid_search) = call.top_k
    /\ \E i \in 1..Len(call.ranked) :
           KeywordMatches(Range(Words(Lower(call.query))),
                          Lower(call.ranked[i].content)) > 0
    /\ Ids(ret.hybrid_search) = Ids(ret.search)

\* the semantic score search gives the entry that Chroma ranks at position i
SemanticScore(i) ==
    FracAdd(One, Frac(0 - call.ranked[i].distance.num, call.ranked[i].distance.den))

\* the final score of the entry that Chroma ranks at position i
FinalScore(i) ==
    Combine(call.semantic_weight, SemanticScore(i),
            KeywordScore(Range(Words(Lower(call.query))), call.ranked[i].content))

\* C12: hybrid_search returns at most top_k results, ordered by non-increasing
\* final score, chosen as the highest-scoring of the 2 * top_k candidates of
\* the vector search; results and candidates with equal final score keep the
\* order in which the vector search returned them.
C12_TopKByFinalScore ==
    "hybrid_search" \in ret.done =>
        LET res == ret.hybrid_search
            n == IF 2 * call.top_k < Len(call.ranked)
                 THEN 2 * call.top_k ELSE Len(call.ranked)
            chosen == {res[i].id : i \in 1..Len(res)}
        IN  /\ Len(res) = IF call.top_k < n THEN call.top_k ELSE n
            /\ Cardinality(chosen) = Len(res)
            /\ \A i \in 1..Len(res) :
                   /\ res[i].id \in 1..n
                   /\ FracEq(res[i].score, FinalScore(res[i].id))
            /\ \A i, j \in 1..Len(res) :
                   i < j => /\ ~FracLess(res[i].score, res[j].score)
                            /\ FracEq(res[i].score, res[j].score)
                                   => res[i].id < res[j].id
            /\ \A c \in (1..n) \ chosen : \A i \in 1..Len(res) :
                   /\ ~FracLess(res[i].score, FinalScore(c))
                   /\ FracEq(res[i].score, FinalScore(c)) => res[i].id < c

C12_Witness ==
    /\ "hybrid_search" \in ret.done
    /\ Len(ret.hybrid_search) = 2
    /\ ret.hybrid_search[1].id > ret.hybrid_search[2].id
    /\ \E c \in 1..Len(call.ranked) :
           /\ c > ret.hybrid_search[2].id
           /\ FracEq(FinalScore(c), ret.hybrid_search[2].score)

\* |query terms that are terms of the lowercased content| / |query terms|
TermScore(query, content) ==
    LET query_terms == Range(Words(Lower(query)))
    IN  IF query_terms = {} THEN Zero
        ELSE Frac(Cardinality(query_terms \cap Range(Words(Lower(content)))),
                  Cardinality(query_terms))

\* C13: the final score of every result is semantic_weight * semanticScore +
\* (1 - semantic_weight) * keywordScore, where keywordScore is the number of
\* distinct lowercase whitespace-delimited query terms that are also
\* whitespace-delimited terms of the lowercased content, divided by the number
\* of distinct query terms (0 when the query has no terms); query "hello",
\* content "hello world", semanticScore 0.5 and weight 0.7 give 0.65.
C13_KeywordScoreCountsTerms ==
    /\ "hybrid_search" \in ret.done =>
           \A i \in 1..Len(ret.hybrid_search) :
               LET r == ret.hybrid_search[i]
                   w == call.semantic_weight
               IN  FracEq(r.score,
                          FracAdd(FracMul(w, SemanticScore(r.id)),
                                  FracMul(FracAdd(One, Frac(0 - w.num, w.den)),
                                          TermScore(call.query,
                                                    call.ranked[r.id].content))))
    /\ FracEq(Combine(Frac(7, 10), Frac(5, 10),
                      KeywordScore({<<"h", "e", "l", "l", "o">>},
                                   <<"h", "e", "l", "l", "o", " ",
                                     "w", "o", "r", "l", "d">>)),
              Frac(65, 100))

\* ----------------------------------------------------- MarkdownPreprocessor
\* number of "#" characters the line starts with
RECURSIVE Hashes(_)
Hashes(line) ==
    IF line # <<>> /\ line[1] = "#" THEN 1 + Hashes(Tail(line)) ELSE 0

\* re.match(r'^(#{1,6})\s+(.+)$', line): one to six "#", then whitespace,
\* then at least one more character
IsHeader(line) ==
    LET level == Hashes(line)
    IN  /\ level \in 1..6
        /\ Len(line) >= level + 2
        /\ IsSpace(line[level + 1])

\* a title taken as it stands after the first whitespace character
HeaderTitleUntrimmed(line) == Slice(line, Hashes(line) + 1, Len(line))

\* match.group(2).strip()
HeaderTitle(line) == Strip(Slice(line, Hashes(line), Len(line)))

\* a section that does not record where it starts
SectionAtZero(title, level, content, start_char) ==
    [title |-> title, level |-> level, content |-> content, start_char |-> 0]

Section(title, level, content, start_char) ==
    [title |-> title, level |-> level, content |-> content,
     start_char |-> start_char]

\* the loop of split_by_headers over lines[i..]
RECURSIVE HeaderLoop(_, _, _)
HeaderLoop(lines, i, st) ==
    IF i > Len(lines) THEN st
    ELSE LET line == lines[i]
             saved == IF ~Blank(st.current.content)
                      THEN Append(st.sections, st.current)
                      ELSE st.sections
             after ==
                 IF IsHeader(line)
                 THEN [sections |-> saved,
                       current |-> Section(HeaderTitle(line), Hashes(line),
                                           line \o <<"\n">>, st.current_char),
                       current_char |-> st.current_char + Len(line) + 1]
                 ELSE [sections |-> st.sections,
                       current |-> [st.current EXCEPT !.content = @ \o line \o <<"\n">>],
                       current_char |-> st.current_char + Len(line) + 1]
         IN  HeaderLoop(lines, i + 1, after)

\* MarkdownPreprocessor.split_by_headers
SplitByHeaders(content) ==
    LET st == HeaderLoop(Split(content, <<"\n">>), 1,
                         [sections |-> <<>>,
                          current |-> Section(<<>>, 0, <<>>, 0),
                          current_char |-> 0])
        sections == IF ~Blank(st.current.content)
                    THEN Append(st.sections, st.current)
                    ELSE st.sections
    IN  IF sections = <<>> THEN <<Section(<<>>, 0, content, 0)>> ELSE sections

\* ------------------------------------------------ SemanticDocumentProcessor
\* What the LangChain SemanticChunker does with the sections of one text is
\* given by `chunker`: NoChunker when the import failed, else a non-empty
\* sequence of behaviours of split_text that the sections meet in turn:
\* "raises", "whole" (one piece), "halves" (two pieces), "nothing" (no piece).
NoChunker == <<>>

\* a chunker whose construction raises an error that is not an ImportError
Unbuildable == <<"construction fails">>

\* _get_semantic_chunker raises: the construction is retried on every call and
\* only ImportError is caught
GetSemanticChunkerRaises(chunker) == chunker = Unbuildable

Behaviour(chunker, k) == chunker[((k - 1) % Len(chunker)) + 1]

\* chunker.split_text(section_content) when it returns
SemanticDocs(behaviour, section_content) ==
    CASE behaviour = "whole"   -> <<section_content>>
      [] behaviour = "halves"  ->
             <<Slice(section_content, 0, Len(section_content) \div 2),
               Slice(section_content, Len(section_content) \div 2,
                     Len(section_content))>>
      [] behaviour = "nothing" -> <<>>

SectionMetadata(section) == {<<"section_title", section.title>>}

\* the chunk of a section shorter than min_chunk_size
ShortSection(section, chunk_index) ==
    IF ~Blank(section.content)
    THEN <<TextChunk(Strip(section.content), section.start_char,
                     section.start_char + Len(section.content), chunk_index,
                     SectionMetadata(section))>>
    ELSE <<>>

\* the chunks built from the pieces the SemanticChunker returned
SemanticChunks(text, section, semantic_docs, chunk_index) ==
    [i \in 1..Len(semantic_docs) |->
        LET found == Find(text, Slice(semantic_docs[i], 0, FindPrefix))
            start == IF found = -1 THEN section.start_char ELSE found
        IN  TextChunk(semantic_docs[i], start, start + Len(semantic_docs[i]),
                      chunk_index + i - 1, SectionMetadata(section))]

\* fallback chunks that keep the indices super().chunk_text gave them
FallbackChunksAsNumbered(self, section, chunk_size, chunk_overlap, chunk_index) ==
    LET fallback_chunks == ChunkText(self, section.content, chunk_size, chunk_overlap)
    IN  [i \in 1..Len(fallback_chunks) |->
            LET start_char == fallback_chunks[i].start_char + section.start_char
            IN  TextChunk(fallback_chunks[i].content, start_char,
                          start_char + Len(fallback_chunks[i].content),
                          fallback_chunks[i].chunk_index, SectionMetadata(section))]

\* the chunks of super().chunk_text on a section, renumbered and repositioned
FallbackChunks(self, section, chunk_size, chunk_overlap, chunk_index) ==
    LET fallback_chunks == ChunkText(self, section.content, chunk_size, chunk_overlap)
    IN  [i \in 1..Len(fallback_chunks) |->
            LET start_char == fallback_chunks[i].start_char + section.start_char
            IN  TextChunk(fallback_chunks[i].content, start_char,
                          start_char + Len(fallback_chunks[i].content),
                          chunk_index + i - 1, SectionMetadata(section))]

\* the chunks one section adds in SemanticDocumentProcessor.chunk_text
SectionChunks(self, text, section, k, chunk_size, chunk_overlap, chunker, chunk_index) ==
    IF Len(Strip(section.content)) < self.min_chunk_size
    THEN ShortSection(section, chunk_index)
    ELSE IF chunker # NoChunker /\ Behaviour(chunker, k) # "raises"
    THEN SemanticChunks(text, section,
                        SemanticDocs(Behaviour(chunker, k), section.content),
                        chunk_index)
    ELSE FallbackChunks(self, section, chunk_size, chunk_overlap, chunk_index)

\* the loop of chunk_text over sections[k..]
RECURSIVE SectionLoop(_, _, _, _, _, _, _, _)
SectionLoop(self, text, sections, k, chunk_size, chunk_overlap, chunker, st) ==
    IF k > Len(sections) THEN st.all_chunks
    ELSE LET added == SectionChunks(self, text, sections[k], k, chunk_size,
                                    chunk_overlap, chunker, st.chunk_index)
         IN  SectionLoop(self, text, sections, k + 1, chunk_size, chunk_overlap,
                         chunker,
                         [all_chunks |-> st.all_chunks \o added,
                          chunk_index |-> st.chunk_index + Len(added)])

\* SemanticDocumentProcessor.chunk_text raises: the chunker is fetched once,
\* before the loop over the sections and outside any try
SemanticChunkTextRaises(self, text, chunker) ==
    /\ ~(text = <<>> \/ Len(text) < self.min_chunk_size)
    /\ GetSemanticChunkerRaises(chunker)

\* SemanticDocumentProcessor.chunk_text when it returns
SemanticChunkText(self, text, chunk_size, chunk_overlap, chunker) ==
    IF text = <<>> \/ Len(text) < self.min_chunk_size THEN ShortText(text)
    ELSE SectionLoop(self, text, SplitByHeaders(text), 1, chunk_size,
                     chunk_overlap, chunker,
                     [all_chunks |-> <<>>, chunk_index |-> 0])

\* SemanticDocumentProcessor._chunk_section_sync: raises when the chunker
\* cannot be constructed, when there is none or when split_text raises, else returns chunks with chunk_index 0
ChunkSectionSync(text, section, k, chunker) ==
    IF \/ GetSemanticChunkerRaises(chunker)
       \/ chunker = NoChunker
       \/ Behaviour(chunker, k) = "raises"
    THEN [raised |-> TRUE, chunks |-> <<>>]
    ELSE [raised |-> FALSE,
          chunks |-> LET chunks == SemanticChunks(
                                       text, section,
                                       SemanticDocs(Behaviour(chunker, k),
                                                    section.content), 0)
                     IN  [i \in 1..Len(chunks) |->
                             [chunks[i] EXCEPT !.chunk_index = 0]]]

\* the chunks one section adds in SemanticDocumentProcessor.chunk_text_async
SectionChunksAsync(self, text, section, k, chunk_size, chunk_overlap, chunker, chunk_index) ==
    IF Len(Strip(section.content)) < self.min_chunk_size
    THEN ShortSection(section, chunk_index)
    ELSE LET section_chunks == ChunkSectionSync(text, section, k, chunker)
         IN  IF ~section_chunks.raised
             THEN [i \in 1..Len(section_chunks.chunks) |->
                      [section_chunks.chunks[i] EXCEPT
                           !.chunk_index = chunk_index + i - 1]]
             ELSE FallbackChunks(self, section, chunk_size, chunk_overlap,
                                 chunk_index)

\* the loop of chunk_text_async over sections[k..]
RECURSIVE SectionLoopAsync(_, _, _, _, _, _, _, _)
SectionLoopAsync(self, text, sections, k, chunk_size, chunk_overlap, chunker, st) ==
    IF k > Len(sections) THEN st.all_chunks
    ELSE LET added == SectionChunksAsync(self, text, sections[k], k, chunk_size,
                                         chunk_overlap, chunker, st.chunk_index)
         IN  SectionLoopAsync(self, text, sections, k + 1, chunk_size,
                              chunk_overlap, chunker,
                              [all_chunks |-> st.all_chunks \o added,
                               chunk_index |-> st.chunk_index + Len(added)])

\* SemanticDocumentProcessor.chunk_text_async
SemanticChunkTextAsync(self, text, chunk_size, chunk_overlap, chunker) ==
    IF text = <<>> \/ Len(text) < self.min_chunk_size THEN ShortText(text)
    ELSE SectionLoopAsync(self, text, SplitByHeaders(text), 1, chunk_size,
                          chunk_overlap, chunker,
                          [all_chunks |-> <<>>, chunk_index |-> 0])

\* --- chunk_text called on its own
MaxTextLen == 5         \* longest text given to chunk_text

Texts == UNION {[1..n -> {"a", " ", "\n", "#"}] : n \in 0..MaxTextLen}

\* the processors: chunk_size, chunk_overlap and min_chunk_size of __init__
Processors ==
    {[chunk_size |-> 2, chunk_overlap |-> 1, min_chunk_size |-> 3],
     [chunk_size |-> 3, chunk_overlap |-> 0, min_chunk_size |-> 1]}

\* the optional arguments chunk_size and chunk_overlap of chunk_text
ChunkSizes == {None, 1, 3}
ChunkOverlaps == {None, 1}

\* what the SemanticChunker does, see Behaviour and Unbuildable
Chunkers ==
    {NoChunker, Unbuildable, <<"raises">>, <<"whole">>, <<"halves", "raises">>}

InitChunkText ==
    /\ InitPipeline
    /\ call \in [fn : {"chunk_text"}, self : Processors, text : Texts]
    /\ ret = NoRet

\* DocumentProcessor.chunk_text(text, chunk_size, chunk_overlap)
ChunkTextCall ==
    /\ call.fn = "chunk_text"
    /\ ret = NoRet
    /\ \E chunk_size \in ChunkSizes, chunk_overlap \in ChunkOverlaps :
          ret' = [fn |-> "chunk_text", chunk_size |-> chunk_size,
                  chunk_overlap |-> chunk_overlap, chunker |-> NoChunker,
                  raised |-> FALSE,
                  value |-> ChunkText(call.self, call.text, chunk_size,
                                      chunk_overlap)]
    /\ UNCHANGED <<pipeline, call>>

\* SemanticDocumentProcessor.chunk_text(text, chunk_size, chunk_overlap)
SemanticChunkTextCall ==
    /\ call.fn = "chunk_text"
    /\ ret = NoRet
    /\ \E chunk_size \in ChunkSizes, chunk_overlap \in ChunkOverlaps,
          chunker \in Chunkers :
          ret' = [fn |-> "semantic_chunk_text", chunk_size |-> chunk_size,
                  chunk_overlap |-> chunk_overlap, chunker |-> chunker,
                  raised |-> SemanticChunkTextRaises(call.self, call.text,
                                                     chunker),
                  value |-> IF SemanticChunkTextRaises(call.self, call.text,
                                                       chunker)
                            THEN <<>>
                            ELSE SemanticChunkText(call.self, call.text,
                                                   chunk_size, chunk_overlap,
                                                   chunker)]
    /\ UNCHANGED <<pipeline, call>>

\* await SemanticDocumentProcessor.chunk_text_async(text, chunk_size, chunk_overlap)
SemanticChunkTextAsyncCall ==
    /\ call.fn = "chunk_text"
    /\ ret = NoRet
    /\ \E chunk_size \in ChunkSizes, chunk_overlap \in ChunkOverlaps,
          chunker \in Chunkers :
          ret' = [fn |-> "semantic_chunk_text_async", chunk_size |-> chunk_size,
                  chunk_overlap |-> chunk_overlap, chunker |-> chunker,
                  raised |-> FALSE,
                  value |-> SemanticChunkTextAsync(call.self, call.text,
                                                   chunk_size, chunk_overlap,
                                                   chunker)]
    /\ UNCHANGED <<pipeline, call>>

NextChunkText ==
    ChunkTextCall \/ SemanticChunkTextCall \/ SemanticChunkTextAsyncCall

\* chunk_text of the recursive and of the semantic processor called on one text
SpecChunkText == InitChunkText /\ [][NextChunkText]_vars

\* C14: for a non-empty text shorter than min_chunk_size, chunk_text of the
\* recursive and of the semantic processor returns exactly one chunk whose
\* content is the input text, with index 0 and offsets [0, len(text)); for
\* the empty text it returns the empty list.
C14_ShortTextIsOneChunk ==
    ret.fn # "none" =>
        /\ call.text = <<>> => ret.value = <<>>
        /\ (call.text # <<>> /\ Len(call.text) < call.self.min_chunk_size) =>
              /\ Len(ret.value) = 1
              /\ ret.value[1].content = call.text
              /\ ret.value[1].chunk_index = 0
              /\ ret.value[1].start_char = 0
              /\ ret.value[1].end_char = Len(call.text)

C14_Witness ==
    /\ ret.fn = "semantic_chunk_text"
    /\ call.text = <<" ", "a">>
    /\ call.self.min_chunk_size = 3
    /\ Len(ret.value) = 1

\* C16: for every input text, whitespace-only text shorter or longer than
\* min_chunk_size included, every chunk returned by chunk_text of the
\* recursive splitter has content that is non-empty after trimming.
C16_ChunksNotBlank ==
    ret.fn = "chunk_text" =>
        \A i \in 1..Len(ret.value) : ~Blank(ret.value[i].content)

\* C17: for every text, the chunks returned by chunk_text of the recursive
\* splitter and by chunk_text and chunk_text_async of the semantic splitter,
\* across all sections and across the semantic and the fallback path, have
\* the indices 0, 1, ..., n-1 in list order, without gaps or repeats.
C17_IndicesContiguous ==
    ret.fn # "none" =>
        \A i \in 1..Len(ret.value) : ret.value[i].chunk_index = i - 1

C17_Witness ==
    /\ ret.fn = "semantic_chunk_text_async"
    /\ ret.chunker = <<"halves", "raises">>
    /\ call.self.min_chunk_size = 1
    /\ Len(SplitByHeaders(call.text)) = 2
    /\ Len(ret.value) >= 4
    /\ ret.value[1].metadata # ret.value[Len(ret.value)].metadata

\* --- _recursive_split called on its own, one invocation at a time
MaxChunkSize == 3       \* largest chunk_size given to _recursive_split

\* the splits of one invocation that it hands to recursive calls, in order
Recursed(text, separators, chunk_size) ==
    IF Len(text) <= chunk_size THEN <<>>
    ELSE LET separator == PickSeparator(text, separators)
             splits == IF separator # <<>>
                       THEN Split(text, separator)
                       ELSE FixedWidth(text, chunk_size)
         IN  SelectSeq(splits, LAMBDA split : /\ ~Blank(split)
                                              /\ Len(split) > chunk_size
                                              /\ Len(separators) > 1)

\* an invocation of _recursive_split, with the separators its caller was given
\* and the separator its caller picked
Invocation(depth, text, separators, caller) ==
    [depth |-> depth, text |-> text, separators |-> separators, caller |-> caller]

\* chunk_text calls self._recursive_split(text, separators, chunk_size)
SplitEnter ==
    /\ call = NoCall
    /\ call' \in [fn : {"_recursive_split"}, text : Texts,
                  chunk_size : 1..MaxChunkSize]
    /\ ret' = [fn |-> "_recursive_split",
               stack |-> <<Invocation(0, call'.text, Separators,
                                      [separators |-> Separators,
                                       separator |-> <<>>])>>,
               finished |-> {}]
    /\ UNCHANGED pipeline

\* the invocation on top of the stack runs its loop over the splits; the
\* recursive calls it makes are the next invocations to run
SplitInvoke ==
    /\ call.fn = "_recursive_split"
    /\ ret.stack # <<>>
    /\ LET c == Head(ret.stack)
           splits == Recursed(c.text, c.separators, call.chunk_size)
           sub_calls == [i \in 1..Len(splits) |->
                        Invocation(c.depth + 1, splits[i],
                                   NextSeparators(c.separators),
                                   [separators |-> c.separators,
                                    separator |-> PickSeparator(c.text, c.separators)])]
       IN  ret' = [ret EXCEPT !.stack = sub_calls \o Tail(ret.stack),
                              !.finished = @ \cup {c}]
    /\ UNCHANGED <<pipeline, call>>

NextSplit == SplitEnter \/ SplitInvoke

SpecSplit == Init /\ [][NextSplit]_vars

\* position of a separator in the list of chunk_text
SeparatorIndex(separator) == CHOOSE i \in 1..Len(Separators) : Separators[i] = separator

\* the work a stack of invocations can still cost, a natural number: for each
\* invocation itself and, for every character of its text, one level of
\* recursion per separator it was given
RECURSIVE PendingWork(_)
PendingWork(stack) ==
    IF stack = <<>> THEN 0
    ELSE 1 + Len(Head(stack).text) * Len(Head(stack).separators)
           + PendingWork(Tail(stack))

\* C15: for every text and every chunk size >= 1 the recursive splitter
\* terminates, a single token longer than the chunk size included: every
\* invocation strictly lowers the work that is left, which is a natural
\* number, each recursive invocation is given strictly fewer separators than
\* its caller and picks a strictly later one, and an invocation that is left
\* with the empty separator cuts the text into slices of at most chunk_size
\* characters and recurses no further.
C15_RecursiveSplitTerminates ==
    /\ [][(call.fn = "_recursive_split" /\ ret.stack # <<>>) =>
            /\ ret'.stack # ret.stack
            /\ PendingWork(ret'.stack) < PendingWork(ret.stack)]_vars
    /\ [](call.fn = "_recursive_split" =>
            \A c \in Range(ret.stack) \cup ret.finished :
                /\ c.depth > 0 =>
                      /\ Len(c.separators) < Len(c.caller.separators)
                      /\ SeparatorIndex(PickSeparator(c.text, c.separators))
                            > SeparatorIndex(c.caller.separator)
                /\ c.depth < Len(Separators)
                /\ PickSeparator(c.text, c.separators) = <<>> =>
                      /\ Recursed(c.text, c.separators, call.chunk_size) = <<>>
                      /\ \A piece \in Range(FixedWidth(c.text, call.chunk_size)) :
                            Len(piece) \in 1..call.chunk_size)

C15_Witness ==
    /\ call.fn = "_recursive_split"
    /\ call.text = <<"a", "a", "a", " ", "a">>
    /\ call.chunk_size = 1
    /\ ret.stack = <<>>
    /\ \E c \in ret.finished :
          /\ c.depth = 1
          /\ c.text = <<"a", "a", "a">>
          /\ PickSeparator(c.text, c.separators) = <<>>

\* --- chunk_with_parents called on its own
\* texts whose chunks are longer than the prefix chunk_text looks up
LongTexts ==
    LET run == [i \in 1..FindPrefix |-> "a"]
    IN  {<<"a", " ">> \o run, run \o <<" ", "a">>}

\* short texts in small chunks, long texts in chunks longer than the prefix
InitParents ==
    /\ InitPipeline
    /\ call \in [fn : {"chunk_with_parents"}, self : Processors, text : Texts,
                 parent_chunk_size : {1, 3}, child_chunk_size : {1, 2},
                 child_overlap : {0, 1}]
                \cup
                [fn : {"chunk_with_parents"}, self : Processors, text : LongTexts,
                 parent_chunk_size : {FindPrefix + 10},
                 child_chunk_size : {FindPrefix + 1}, child_overlap : {0, 1}]
    /\ ret = NoRet

\* DocumentProcessor.chunk_with_parents(text, parent_chunk_size,
\* child_chunk_size, child_overlap)
ChunkWithParentsCall ==
    /\ call.fn = "chunk_with_parents"
    /\ ret = NoRet
    /\ LET result == ChunkWithParents(call.self, call.text,
                                      call.parent_chunk_size,
                                      call.child_chunk_size, call.child_overlap)
       IN  ret' = [fn |-> "chunk_with_parents",
                   parent_chunks |-> result.parent_chunks,
                   child_chunks |-> result.child_chunks]
    /\ UNCHANGED <<pipeline, call>>

SpecParents == InitParents /\ [][ChunkWithParentsCall]_vars

\* child.metadata["parent_index"]
ParentIndex(child) ==
    CHOOSE k \in 0..Len(ret.parent_chunks) : <<"parent_index", k>> \in child.metadata

\* the parent chunk a child names
ParentOf(child) == ret.parent_chunks[ParentIndex(child) + 1]

\* C18: in the result of chunk_with_parents the child chunks have indices that
\* start at 0 and increase by one across the whole children list, not only
\* within one parent, and each child's parent_index is the index of the
\* parent from whose content it was produced.
C18_ChildIndicesContiguous ==
    ret.fn = "chunk_with_parents" =>
        \A i \in 1..Len(ret.child_chunks) :
            LET child == ret.child_chunks[i]
            IN  /\ child.chunk_index = i - 1
                /\ ParentIndex(child) < Len(ret.parent_chunks)
                /\ ParentOf(child).chunk_index = ParentIndex(child)
                /\ child \in Range(ChildrenOf(call.self, ParentOf(child),
                                              call.child_chunk_size,
                                              call.child_overlap))

\* C19: for every text and every parent size, child size and child overlap,
\* each child chunk returned by chunk_with_parents has start_char >= its
\* parent's start_char and end_char <= its parent's end_char.
C19_ChildWithinParent ==
    ret.fn = "chunk_with_parents" =>
        \A i \in 1..Len(ret.child_chunks) :
            LET child == ret.child_chunks[i]
            IN  /\ child.start_char >= ParentOf(child).start_char
                /\ child.end_char <= ParentOf(child).end_char

\* C20: the parent chunks returned by chunk_with_parents are produced with
\* overlap 0 whatever the default overlap of the processor: no parent starts
\* with characters prepended from the end of the previous parent, the parents
\* are exactly the disjoint segments of the recursive split at parent size.
C20_ParentsWithoutOverlap ==
    (/\ ret.fn = "chunk_with_parents"
     /\ Len(call.text) >= call.self.min_chunk_size
     /\ call.text # <<>>)
    => [k \in 1..Len(ret.parent_chunks) |-> ret.parent_chunks[k].content]
          = RecursiveSplit(call.text, Separators, call.parent_chunk_size)

\* --- split_by_headers called on its own
MaxLines == 3           \* largest number of lines of a text given to split_by_headers

\* "\n".join(lines)
RECURSIVE JoinLines(_)
JoinLines(lines) ==
    IF Len(lines) = 1 THEN lines[1]
    ELSE lines[1] \o <<"\n">> \o JoinLines(Tail(lines))

\* texts of up to MaxLines lines: blank and plain lines, headings with and
\* without blanks around the title, and lines that only look like headings
SectionTexts ==
    LET line == {<<>>, <<"a">>, <<"#", " ", "a">>, <<"#", "#", " ", " ", "b", " ">>,
                 <<"#", "a">>, <<"#", " ", " ">>, <<" ", "#", " ", "a">>,
                 <<"#", "#", "#", "#", "#", "#", "#", " ", "a">>}
    IN  {JoinLines(ls) : ls \in UNION {[1..n -> line] : n \in 1..MaxLines}}

\* MarkdownPreprocessor.split_by_headers(content)
SplitByHeadersCall ==
    /\ call.fn = "split_by_headers"
    /\ ret = NoRet
    /\ ret' = [fn |-> "split_by_headers", value |-> SplitByHeaders(call.text)]
    /\ UNCHANGED <<pipeline, call>>

InitSections ==
    /\ InitPipeline
    /\ call \in [fn : {"split_by_headers"}, text : SectionTexts]
    /\ ret = NoRet

SpecSections == InitSections /\ [][SplitByHeadersCall]_vars

\* the line is a heading marker of the given depth followed by whitespace and
\* a title
HeadingLine(line, depth) ==
    /\ Len(line) >= depth + 2
    /\ \A k \in 1..depth : line[k] = "#"
    /\ IsSpace(line[depth + 1])

\* C21: split_by_headers returns, in document order, exactly one section with
\* level >= 1 for each line that is a heading marker of depth 1 to 6 followed
\* by whitespace and a title; the level of that section is the number of "#"
\* characters, its title is the trimmed remainder of the line, and its content
\* starts with the heading line and runs up to the next heading line.
C21_OneSectionPerHeading ==
    ret.fn = "split_by_headers" =>
        LET lines == Split(call.text, <<"\n">>)
            heads == {i \in 1..Len(lines) : \E d \in 1..6 : HeadingLine(lines[i], d)}
            titled == SelectSeq(ret.value, LAMBDA s : s.level >= 1)
        IN  /\ Len(titled) = Cardinality(heads)
            /\ \A h \in heads :
                  LET section == titled[Cardinality({g \in heads : g <= h})]
                      depth == CHOOSE d \in 1..6 : HeadingLine(lines[h], d)
                      later == {g \in heads : g > h} \cup {Len(lines) + 1}
                      next == CHOOSE g \in later : \A x \in later : g <= x
                  IN  /\ section.level = depth
                      /\ section.title = Strip(Slice(lines[h], depth, Len(lines[h])))
                      /\ section.content
                            = Concat([k \in 1..(next - h) |->
                                         lines[h + k - 1] \o <<"\n">>], next - h)

C21_Witness ==
    /\ ret.fn = "split_by_headers"
    /\ call.text = JoinLines(<< <<"a">>, <<"#", "#", " ", " ", "b", " ">>,
                                <<"#", " ", "a">> >>)
    /\ Len(ret.value) = 3
    /\ ret.value[2].level = 2
    /\ ret.value[2].title = <<"b">>
    /\ ret.value[3].level = 1

\* C22: for every text without a heading line, the empty and the all-blank
\* text included, split_by_headers returns exactly one section with empty
\* title, level 0, start offset 0 and content equal to the whole input text.
C22_NoHeadingIsWholeText ==
    (/\ ret.fn = "split_by_headers"
     /\ \A i \in 1..Len(Split(call.text, <<"\n">>)) :
           \A d \in 1..6 : ~HeadingLine(Split(call.text, <<"\n">>)[i], d))
    => ret.value = <<[title |-> <<>>, level |-> 0, content |-> call.text,
                     start_char |-> 0]>>

\* C23: for every section returned by split_by_headers start_char is exact:
\* the text at offset start_char begins with the first line of the section's
\* content, a first section that holds text before any heading starts at 0,
\* and the start offsets are strictly increasing across the sections, each
\* later one at the start of a line.
C23_StartCharExact ==
    ret.fn = "split_by_headers" =>
        /\ \A i \in 1..Len(ret.value) :
              OccursAt(call.text, Split(ret.value[i].content, <<"\n">>)[1],
                       ret.value[i].start_char)
        /\ ret.value[1].level = 0 => ret.value[1].start_char = 0
        /\ \A i \in 1..(Len(ret.value) - 1) :
              /\ ret.value[i].start_char < ret.value[i + 1].start_char
              /\ ret.value[i + 1].start_char > 0
                    => call.text[ret.value[i + 1].start_char] = "\n"

C23_Witness ==
    /\ ret.fn = "split_by_headers"
    /\ call.text = JoinLines(<< <<"a">>, <<"#", "#", " ", " ", "b", " ">>,
                                <<"#", " ", "a">> >>)
    /\ ret.value[1].start_char = 0
    /\ ret.value[2].start_char = 2
    /\ ret.value[3].start_char = 9


\* C24: when the semantic chunker cannot be constructed, whatever the error,
\* or raises while it splits a section, chunk_text and chunk_text_async of
\* the semantic splitter do not raise: that section's chunks are those of the
\* recursive splitter, tagged with the section title, and the chunks of every
\* other section are what they are without the failure.
C24_FailureIsLocal ==
    (/\ ret.fn \in {"semantic_chunk_text", "semantic_chunk_text_async"}
     /\ Len(call.text) >= call.self.min_chunk_size
     /\ call.text # <<>>) =>
        LET sections == SplitByHeaders(call.text)
            failed(k) == \/ ret.chunker \in {NoChunker, Unbuildable}
                         \/ Behaviour(ret.chunker, k) = "raises"
            expected(k) ==
                IF Len(Strip(sections[k].content)) < call.self.min_chunk_size
                THEN ShortSection(sections[k], 0)
                ELSE IF failed(k)
                THEN FallbackChunks(call.self, sections[k], ret.chunk_size,
                                    ret.chunk_overlap, 0)
                ELSE SemanticChunks(call.text, sections[k],
                                    SemanticDocs(Behaviour(ret.chunker, k),
                                                 sections[k].content), 0)
            unindexed(chunks) ==
                [i \in 1..Len(chunks) |-> [chunks[i] EXCEPT !.chunk_index = 0]]
        IN  /\ ~ret.raised
            /\ unindexed(ret.value) =
                   unindexed(Concat([k \in 1..Len(sections) |-> expected(k)],
                                    Len(sections)))

\* C25: every chunk returned by the recursive splitter, by the semantic
\* splitter on its short-section, semantic and fallback paths, and by the
\* hierarchical splitter has offsets with
\* 0 <= start_char < end_char <= len(text).
C25_OffsetsWithinText ==
    LET chunks == CASE ret.fn = "chunk_with_parents" ->
                           ret.parent_chunks \o ret.child_chunks
                    [] ret.fn \in {"chunk_text", "semantic_chunk_text",
                                   "semantic_chunk_text_async"} -> ret.value
                    [] OTHER -> <<>>
    IN  \A i \in 1..Len(chunks) :
            /\ 0 <= chunks[i].start_char
            /\ chunks[i].start_char < chunks[i].end_char
            /\ chunks[i].end_char <= Len(call.text)


\* C26: a delete_document call that returns gives True exactly when the
\* document exists; after it returned True neither the chunk store nor the
\* vector store holds an entry of that document, and when the document does
\* not exist it returns False and leaves both stores as they are.
C26_DeleteRemovesAllEntries ==
    [][\A d \in Docs :
          (/\ last'.kind = "delete"
           /\ last'.doc = d
           /\ last'.result \in {"true", "false"}
           /\ (last' # last \/ calls' # calls))
          => /\ last'.result = "true" <=> docs[d].exists
             /\ last'.result = "true" =>
                   /\ IdsOf(chunkStore', d) = {}
                   /\ IdsOf(vectorStore', d) = {}
             /\ last'.result = "false" =>
                   UNCHANGED <<chunkStore, vectorStore>>]_vars

C26_Witness ==
    /\ last.kind = "delete"
    /\ last.result = "true"
    /\ last.pre.known
    /\ IdsOf(last.pre.chunks, last.doc) # {}
    /\ IdsOf(last.pre.vectors, last.doc) # {}
    /\ IdsOf(chunkStore, last.doc) = {}
    /\ IdsOf(vectorStore, last.doc) = {}
    /\ \E d \in Docs \ {last.doc} : IdsOf(vectorStore, d) # {}

\* calls on document dA by one handler interleaved at every await point with
\* calls on document dB by the other handler, fewer than MaxCalls in all
NextTwoDocs ==
    /\ \/ \E d \in Docs : CreateDocument(d)
       \/ StepOn("p1", {"dA"})
       \/ StepOn("p2", {"dB"})
    /\ calls' < MaxCalls

SpecTwoDocs == Init /\ [][NextTwoDocs]_vars

C28_StatusFollowsOutcome ==
    /\ \A p \in Procs :
          pc[p] \in IndexStages \ {"processing"} => tx[p].status = "processing"
    /\ (last.kind = "index" /\ last.result \in {"true", "raised"}) =>
          /\ docs[last.doc].status = "indexed" <=> last.result = "true"
          /\ docs[last.doc].status = "failed" <=> last.result = "raised"
          /\ docs[last.doc].status # "processing"
    /\ (last.kind = "index" /\ last.result = "false" /\ last.pre.known) =>
          /\ chunkStore = last.pre.chunks
          /\ vectorStore = last.pre.vectors
          /\ docs[last.doc].status = Absent.status

\* C29: for every text and every behaviour of the chunker (it succeeds, it
\* raises while splitting, it is unavailable, its construction fails),
\* chunk_text_async returns the same list of chunks as chunk_text of the
\* semantic splitter and raises exactly when chunk_text raises.
C29_AsyncEqualsSync ==
    ret.fn = "semantic_chunk_text_async" =>
        /\ ret.raised = SemanticChunkTextRaises(call.self, call.text,
                                                ret.chunker)
        /\ ~ret.raised =>
               ret.value = SemanticChunkText(call.self, call.text,
                                             ret.chunk_size, ret.chunk_overlap,
                                             ret.chunker)

\* --- _recursive_split called on its own, as one call
\* chunk_text calls self._recursive_split(text, separators, chunk_size) on
\* texts with sentence ends, blanks and line ends
InitSegments ==
    /\ InitPipeline
    /\ call \in [fn : {"_recursive_split"},
                 text : UNION {[1..n -> {"a", ".", " ", "\n"}] : n \in 0..MaxTextLen},
                 chunk_size : 1..MaxChunkSize]
    /\ ret = NoRet

\* self._recursive_split(text, separators, chunk_size) returns
RecursiveSplitCall ==
    /\ call.fn = "_recursive_split"
    /\ ret = NoRet
    /\ ret' = [fn |-> "_recursive_split",
               chunks |-> RecursiveSplit(call.text, Separators, call.chunk_size)]
    /\ UNCHANGED <<pipeline, call>>

SpecSegments == InitSegments /\ [][RecursiveSplitCall]_vars

\* C30: the recursive splitter loses no content other than whitespace: the
\* disjoint segments returned by _recursive_split, concatenated in order,
\* hold the non-whitespace characters of the input, all of them and in
\* their original order, and each segment is at most chunk_size long.
C30_OnlyWhitespaceLost ==
    ret.fn = "_recursive_split" =>
        LET visible(s) == SelectSeq(s, LAMBDA c : ~IsSpace(c))
        IN  /\ visible(Concat(ret.chunks, Len(ret.chunks))) = visible(call.text)
            /\ \A i \in 1..Len(ret.chunks) :
                   Len(ret.chunks[i]) <= call.chunk_size
====
